---- MODULE Spec2Model ----
(***************************************************************************)
(* Model of src/backend/config_files.py: one configuration document        *)
(* (ConfigFile / JSONConfigFile), its pending-write slot _to_write, its    *)
(* background _write_loop, and the file at the resolved path.              *)
(*                                                                         *)
(* JSON values are tagged records: Leaf(n) is any non-mapping JSON value   *)
(* (number, string, list, boolean, null), Map(f) is an object whose        *)
(* members are the function f from keys to JSON values.  File contents     *)
(* and the pending slot hold TEXT, modelled as a sequence of tokens;       *)
(* dumps and loads convert between the two.                                *)
(***************************************************************************)
EXTENDS Integers, Sequences, FiniteSets, TLC

(* ---------------------------- bounds ----------------------------------- *)

\* Number of calls of ConfigFile.write (by callers or by read) in one run.
MaxWrites == 3

(* ------------------------- JSON values --------------------------------- *)

Leaf(n) == [t |-> "leaf", n |-> n, m |-> <<>>]

Map(f) == [t |-> "map", n |-> 0, m |-> f]

IsMap(v) == v.t = "map"

EmptyObj == Map(<<>>)

\* dict[k] = v
Put(f, k, v) == [x \in (DOMAIN f) \cup {k} |-> IF x = k THEN v ELSE f[x]]

\* Keys in lexicographic order, as sort_keys=True emits them.
KeyOrder == <<"@u1", "@u2", "a", "autoLoad", "autoPlay", "b", "c", "console",
              "device_id", "homeserver", "media", "theme", "token">>

Keys == {KeyOrder[i] : i \in DOMAIN KeyOrder}

\* The non-mapping values that occur, and their JSON text.
Leaves == {1, 2, 9}

LeafTok(n) == CASE n = 1 -> "1" [] n = 2 -> "2" [] OTHER -> "9"

LeafToks == {LeafTok(n) : n \in Leaves}

LeafOfTok(s) == CHOOSE n \in Leaves : LeafTok(n) = s

SortedKeys(S) == SelectSeq(KeyOrder, LAMBDA k : k \in S)

(* ------------------- json.dumps / json.loads --------------------------- *)

RECURSIVE dumps(_), DumpMembers(_, _)

\* json.dumps(data, indent=4, ensure_ascii=False, sort_keys=True)
dumps(v) ==
    IF IsMap(v)
    THEN <<"{">> \o DumpMembers(v.m, SortedKeys(DOMAIN v.m)) \o <<"}">>
    ELSE <<LeafTok(v.n)>>

DumpMembers(f, ks) ==
    IF ks = <<>> THEN <<>>
    ELSE <<Head(ks), ":">> \o dumps(f[Head(ks)])
         \o (IF Tail(ks) = <<>> THEN <<>> ELSE <<",">>)
         \o DumpMembers(f, Tail(ks))

ParseFail == [ok |-> FALSE, val |-> EmptyObj, next |-> 0]

RECURSIVE ParseValue(_, _), ParseMembers(_, _, _)

\* Recursive-descent parse of one JSON value starting at token i.
ParseValue(txt, i) ==
    IF i > Len(txt) THEN ParseFail
    ELSE IF txt[i] \in LeafToks
         THEN [ok |-> TRUE, val |-> Leaf(LeafOfTok(txt[i])), next |-> i + 1]
    ELSE IF txt[i] = "{"
         THEN IF i + 1 <= Len(txt) /\ txt[i + 1] = "}"
              THEN [ok |-> TRUE, val |-> EmptyObj, next |-> i + 2]
              ELSE ParseMembers(txt, i + 1, <<>>)
    ELSE ParseFail

\* Members of an object: key ":" value, then "," or "}".  A repeated key
\* keeps its last value, as json.loads does.
ParseMembers(txt, i, acc) ==
    IF ~(i + 1 <= Len(txt) /\ txt[i] \in Keys /\ txt[i + 1] = ":") THEN ParseFail
    ELSE LET r == ParseValue(txt, i + 2) IN
         IF ~r.ok \/ r.next > Len(txt) THEN ParseFail
         ELSE LET acc2 == Put(acc, txt[i], r.val) IN
              IF txt[r.next] = "}"
              THEN [ok |-> TRUE, val |-> Map(acc2), next |-> r.next + 1]
              ELSE IF txt[r.next] = ","
                   THEN ParseMembers(txt, r.next + 1, acc2)
                   ELSE ParseFail

\* json.loads(text): ok = FALSE stands for json.JSONDecodeError.
loads(txt) ==
    LET r == ParseValue(txt, 1) IN
    IF r.ok /\ r.next = Len(txt) + 1
    THEN [ok |-> TRUE, val |-> r.val]
    ELSE [ok |-> FALSE, val |-> EmptyObj]

(* ----------------------- utils.dict_update_recursive ------------------- *)

RECURSIVE dict_update_recursive(_, _), UpdateKeys(_, _, _)

\* Merge of the member function d2 into the member function d1: for each
\* key of d2, merge recursively when both values are mappings, otherwise
\* d2's value overwrites.
dict_update_recursive(d1, d2) == UpdateKeys(d1, d2, SortedKeys(DOMAIN d2))

UpdateKeys(d1, d2, ks) ==
    IF ks = <<>> THEN d1
    ELSE LET k == Head(ks)
             v == IF k \in DOMAIN d1 /\ IsMap(d1[k]) /\ IsMap(d2[k])
                  THEN Map(dict_update_recursive(d1[k].m, d2[k].m))
                  ELSE d2[k]
         IN UpdateKeys(Put(d1, k, v), d2, Tail(ks))

(* ------------------------- the documents ------------------------------- *)

\* The JSON document classes modelled.  UISettings carries two of its
\* entries ("theme" and the nested "media"), History its single entry; a
\* list value is a Leaf.
Classes == {"Accounts", "UISettings", "History"}

\* default_data() of each class, as a member function.
default_data(c) ==
    CASE c = "UISettings" ->
           [theme |-> Leaf(1), media |-> Map([autoLoad |-> Leaf(1), autoPlay |-> Leaf(2)])]
      [] c = "History" -> [console |-> Leaf(1)]
      [] OTHER -> <<>>

\* Values that callers pass to write().
Values == { Map([theme |-> Leaf(9)]),
            Map([media |-> Map([autoLoad |-> Leaf(9), autoPlay |-> Leaf(2)]), theme |-> Leaf(2)]) }

\* Texts a file may hold when the program starts: invalid JSON (a lone
\* brace, and a text cut off after a member), valid JSON objects (among
\* them one with its keys out of order and one holding a non-mapping at
\* "media"), and a valid JSON text that is a bare number.
InvalidTexts == { <<"{">>, <<"{", "theme", ":", "9", ",">> }

ObjectTexts == { <<"{", "}">>,
                 <<"{", "media", ":", "9", "}">>,
                 <<"{", "theme", ":", "9", ",", "media", ":", "{", "autoLoad", ":", "9", "}", "}">>,
                 <<"{", "console", ":", "9", "}">>,
                 dumps(Map(default_data("UISettings"))) }

NumberTexts == { <<"9">> }

NoFile == [exists |-> FALSE, text |-> <<>>]

FileOf(txt) == [exists |-> TRUE, text |-> txt]

InitialFiles ==
    {NoFile} \cup {FileOf(t) : t \in InvalidTexts \cup ObjectTexts \cup NumberTexts}

None == [set |-> FALSE, text |-> <<>>]

(* ------------------------ ConfigFile methods --------------------------- *)

\* ConfigFile.read: self.path.read_text(); notfound stands for
\* FileNotFoundError.
ConfigFile_read(f) == [notfound |-> ~f.exists, text |-> f.text]

\* A write that keeps an older pending value instead of replacing it.
ConfigFile_write_keep(old, data) ==
    IF old.set THEN old ELSE [set |-> TRUE, text |-> data]

\* ConfigFile.write: self._to_write = data.  The new value of the slot,
\* given its old value.
ConfigFile_write(old, data) == [set |-> TRUE, text |-> data]

\* JSONConfigFile.write: serialize, then the base write.
JSONConfigFile_write(old, v) == ConfigFile_write(old, dumps(v))

\* A read that returns the decoded content instead of the merged result.
JSONConfigFile_read_ret_data(dflt, f) ==
    LET raw  == ConfigFile_read(f)
        dec  == loads(raw.text)
        data == IF raw.notfound \/ ~dec.ok THEN EmptyObj ELSE dec.val
        all_data == IF IsMap(data)
                    THEN Map(dict_update_recursive(dflt, data.m))
                    ELSE Map(dflt)
    IN IF ~IsMap(data)
       THEN [raised |-> TRUE, data |-> data, writes |-> FALSE, ret |-> EmptyObj]
       ELSE [raised |-> FALSE, data |-> data, writes |-> data # all_data,
             ret |-> data]

\* A read that catches json.JSONDecodeError only: FileNotFoundError reaches
\* the caller.
JSONConfigFile_read_nocatch(dflt, f) ==
    LET raw  == ConfigFile_read(f)
        dec  == loads(raw.text)
        data == IF raw.notfound \/ ~dec.ok THEN EmptyObj ELSE dec.val
        all_data == IF IsMap(data)
                    THEN Map(dict_update_recursive(dflt, data.m))
                    ELSE Map(dflt)
    IN IF raw.notfound \/ ~IsMap(data)
       THEN [raised |-> TRUE, data |-> data, writes |-> FALSE, ret |-> EmptyObj]
       ELSE [raised |-> FALSE, data |-> data, writes |-> data # all_data,
             ret |-> all_data]

\* A read that writes the merged result back whether or not it differs
\* from the decoded content.
JSONConfigFile_read_always_write(dflt, f) ==
    LET raw  == ConfigFile_read(f)
        dec  == loads(raw.text)
        data == IF raw.notfound \/ ~dec.ok THEN EmptyObj ELSE dec.val
        all_data == IF IsMap(data)
                    THEN Map(dict_update_recursive(dflt, data.m))
                    ELSE Map(dflt)
    IN IF ~IsMap(data)
       THEN [raised |-> TRUE, data |-> data, writes |-> FALSE, ret |-> EmptyObj]
       ELSE [raised |-> FALSE, data |-> data, writes |-> TRUE, ret |-> all_data]

\* JSONConfigFile.read up to its return: the decoded content (or {} on
\* FileNotFoundError / JSONDecodeError), the merged result, whether a write
\* of the merged result is made, and the value returned.  A decoded value
\* that is a number is not iterable: the merge raises TypeError, which read
\* does not catch.
JSONConfigFile_read(dflt, f) ==
    LET raw  == ConfigFile_read(f)
        dec  == loads(raw.text)
        data == IF raw.notfound \/ ~dec.ok THEN EmptyObj ELSE dec.val
        all_data == IF IsMap(data)
                    THEN Map(dict_update_recursive(dflt, data.m))
                    ELSE Map(dflt)
    IN IF ~IsMap(data)
       THEN [raised |-> TRUE, data |-> data, writes |-> FALSE, ret |-> EmptyObj]
       ELSE [raised |-> FALSE, data |-> data, writes |-> data # all_data,
             ret |-> all_data]

(* ------------------------------ state ---------------------------------- *)

VARIABLES
    defaults,   \* what default_data() returns for this document (fixed)
    file,       \* the file at self.path: [exists, text]
    dir,        \* the parent directory of self.path exists
    tpc,        \* position of a Theme.read() call in progress
    to_write,   \* self._to_write: None or [set |-> TRUE, text]
    pc,         \* position of _write_loop
    buf,        \* text handed to new.write(), not yet on disk
    \* history variables
    ncalls,     \* number of ConfigFile.write calls so far
    last,       \* the last ConfigFile.write call: who made it and its value
    slot_id,    \* number of the call that staged to_write (0: none)
    buf_id,     \* number of the call whose text is in buf
    file_id,    \* number of the call whose text the file holds (0: not from a flush)
    written,    \* written[i]: disk writes made of the text of call i
    stepped,    \* the write loop has taken a step since the last call
    coalesced,  \* the last two calls were caller writes with no loop step between
    reads       \* the read() calls since the caller's last write (last two)

vars == <<defaults, file, dir, tpc, to_write, pc, buf, ncalls, last, slot_id, buf_id, file_id,
          written, stepped, coalesced, reads>>

NoCall == [by |-> "none", val |-> EmptyObj, uid |-> "", prev |-> ""]

InitRest ==
    /\ dir = file.exists
    /\ tpc = "idle"
    /\ to_write = None
    /\ pc = "start"
    /\ buf = <<>>
    /\ ncalls = 0
    /\ last = NoCall
    /\ slot_id = 0
    /\ buf_id = 0
    /\ file_id = 0
    /\ written = [i \in 1..MaxWrites |-> 0]
    /\ stepped = FALSE
    /\ coalesced = FALSE
    /\ reads = <<>>

Init ==
    /\ defaults \in {default_data(c) : c \in Classes}
    /\ file \in InitialFiles
    /\ InitRest

Last2(s) == IF Len(s) > 2 THEN SubSeq(s, Len(s) - 1, Len(s)) ELSE s

(* --------------------------- caller operations ------------------------- *)

\* await doc.write(v): JSONConfigFile.write -> ConfigFile.write.  Runs
\* without suspension.
Write(v) ==
    /\ ncalls < MaxWrites
    /\ to_write' = JSONConfigFile_write(to_write, v)
    /\ ncalls' = ncalls + 1
    /\ last' = [by |-> "caller", val |-> v, uid |-> "", prev |-> ""]
    /\ slot_id' = ncalls + 1
    /\ coalesced' = (last.by = "caller" /\ ~stepped)
    /\ stepped' = FALSE
    /\ reads' = <<>>
    /\ UNCHANGED <<defaults, dir, tpc, file, pc, buf, buf_id, file_id, written>>

\* await doc.read(): JSONConfigFile.read.  Runs without suspension
\* (read_text is synchronous), including the write it may make.  The
\* record kept of the call: the file and the slot it found, the last write
\* call made before it, and its outcome.
Read ==
    LET r == JSONConfigFile_read(defaults, file)
        rec == [file |-> file, prior |-> last, raised |-> r.raised, ret |-> r.ret,
                wrote |-> r.writes,
                slot |-> IF r.writes THEN JSONConfigFile_write(to_write, r.ret)
                                     ELSE to_write]
    IN /\ reads' = Last2(Append(reads, rec))
       /\ IF r.writes
          THEN /\ ncalls < MaxWrites
               /\ to_write' = JSONConfigFile_write(to_write, r.ret)
               /\ ncalls' = ncalls + 1
               /\ last' = [by |-> "read", val |-> r.ret, uid |-> "", prev |-> ""]
               /\ slot_id' = ncalls + 1
               /\ coalesced' = FALSE
               /\ stepped' = FALSE
               /\ UNCHANGED <<defaults, dir, tpc, file, pc, buf, buf_id, file_id, written>>
          ELSE UNCHANGED <<defaults, dir, tpc, file, to_write, pc, buf, ncalls, last, slot_id,
                           buf_id, file_id, written, stepped, coalesced>>

(* ------------------------------ _write_loop ---------------------------- *)

\* self.path.parent.mkdir(parents=True, exist_ok=True)
Mkdir ==
    /\ pc = "start"
    /\ dir' = TRUE
    /\ pc' = "sleep"
    /\ stepped' = TRUE
    /\ UNCHANGED <<defaults, tpc, file, to_write, buf>>
    /\ UNCHANGED <<ncalls, last, slot_id, buf_id, file_id, written, coalesced, reads>>

\* A tick that starts a flush without looking at the slot.
Tick_always ==
    /\ pc = "sleep"
    /\ pc' = "opening"
    /\ stepped' = TRUE
    /\ UNCHANGED <<defaults, dir, tpc, file, to_write, buf>>
    /\ UNCHANGED <<ncalls, last, slot_id, buf_id, file_id, written, coalesced, reads>>

\* One tick: the sleep ends and `if self._to_write is not None` is
\* evaluated.
Tick ==
    /\ pc = "sleep"
    /\ pc' = IF to_write.set THEN "opening" ELSE "sleep"
    /\ stepped' = TRUE
    /\ UNCHANGED <<defaults, dir, tpc, file, to_write, buf>>
    /\ UNCHANGED <<ncalls, last, slot_id, buf_id, file_id, written, coalesced, reads>>

\* aiofiles.open(self.path, "w") completes in the executor: the file
\* exists and is empty.  The open succeeds only in an existing directory.
FlushOpen ==
    /\ pc = "opening"
    /\ dir
    /\ file' = FileOf(<<>>)
    /\ file_id' = 0
    /\ pc' = "opened"
    /\ stepped' = TRUE
    /\ UNCHANGED <<defaults, dir, tpc, to_write, buf>>
    /\ UNCHANGED <<ncalls, last, slot_id, buf_id, written, coalesced, reads>>

\* await new.write(self._to_write): the slot is read when the loop resumes
\* after the open; the text goes into the handle's buffer.
FlushWrite ==
    /\ pc = "opened"
    /\ buf' = to_write.text
    /\ buf_id' = slot_id
    /\ pc' = "written"
    /\ stepped' = TRUE
    /\ UNCHANGED <<defaults, dir, tpc, file, to_write>>
    /\ UNCHANGED <<ncalls, last, slot_id, file_id, written, coalesced, reads>>

\* Leaving the `async with`: the handle is closed and the buffer reaches
\* the file.
FlushClose ==
    /\ pc = "written"
    /\ file' = FileOf(buf)
    /\ file_id' = buf_id
    /\ written' = [written EXCEPT ![buf_id] = @ + 1]
    /\ pc' = "closed"
    /\ stepped' = TRUE
    /\ UNCHANGED <<defaults, dir, tpc, to_write, buf>>
    /\ UNCHANGED <<ncalls, last, slot_id, buf_id, coalesced, reads>>

\* self._to_write = None, then await asyncio.sleep(1).
FlushClear ==
    /\ pc = "closed"
    /\ to_write' = None
    /\ slot_id' = 0
    /\ pc' = "sleep"
    /\ stepped' = TRUE
    /\ UNCHANGED <<defaults, dir, tpc, file, buf>>
    /\ UNCHANGED <<ncalls, last, buf_id, file_id, written, coalesced, reads>>

Loop == Mkdir \/ Tick \/ FlushOpen \/ FlushWrite \/ FlushClose \/ FlushClear

Next ==
    \/ \E v \in Values : Write(v)
    \/ Read
    \/ Mkdir
    \/ Tick
    \/ FlushOpen
    \/ FlushWrite
    \/ FlushClose
    \/ FlushClear

Spec == Init /\ [][Next]_vars

TypeOK ==
    /\ pc \in {"start", "sleep", "opening", "opened", "written", "closed", "dead"}
    /\ tpc \in {"idle", "default_data"}
    /\ file.exists => dir
    /\ ncalls \in 0..MaxWrites
    /\ to_write.set = (slot_id > 0)

(* --------------------- read() as a function of its inputs -------------- *)

\* All functions from a subset of the keys KS to the values VS.
FnsOver(KS, VS) == UNION {[S -> VS] : S \in SUBSET KS}

\* Default schemas and decoded on-disk objects, two levels deep, for the
\* checks of read() over all inputs.
MergeDefaults ==
    FnsOver({"a", "c"},
            {Leaf(1), Leaf(2)} \cup {Map(f) : f \in FnsOver({"b", "c"}, {Leaf(1), Leaf(2)})})

MergeContents ==
    FnsOver({"a", "b"},
            {Leaf(9)} \cup {Map(f) : f \in FnsOver({"b", "c"}, {Leaf(9)})})

InitMerge ==
    /\ defaults \in MergeDefaults
    /\ file \in {FileOf(dumps(Map(x))) : x \in MergeContents}
    /\ InitRest

NextMerge == Read

SpecMerge == InitMerge /\ [][NextMerge]_vars

(* ------------------------------ Accounts ------------------------------- *)

\* User ids with a client in backend.clients.
AccountIds == {"@u1", "@u2"}

\* The entry add() makes from the client of a user id.
ClientEntry(u) ==
    Map([homeserver |-> Leaf(1), token |-> Leaf(9), device_id |-> Leaf(2)])

\* accounts.json as the program may find it at start.
AccountFiles ==
    { NoFile, FileOf(<<"{">>), FileOf(<<"{", "}">>),
      FileOf(dumps(Map([u \in {"@u1"} |-> ClientEntry(u)]))) }

\* The slot after the write that read() may have made.
SlotAfterRead(r) == IF r.writes THEN JSONConfigFile_write(to_write, r.ret) ELSE to_write

\* The common part of add and delete: v is written after the read r,
\* unless the read raised.
AccountsWrite(r, v, call) ==
    LET n == ncalls + (IF r.writes THEN 2 ELSE 1) IN
    /\ n <= MaxWrites
    /\ to_write' = JSONConfigFile_write(SlotAfterRead(r), v)
    /\ ncalls' = n
    /\ slot_id' = n
    /\ last' = call
    /\ coalesced' = FALSE
    /\ stepped' = FALSE
    /\ reads' = <<>>
    /\ UNCHANGED <<defaults, dir, tpc, file, pc, buf, buf_id, file_id, written>>

\* await accounts.add(u): write({**await self.read(), u: {...}}).  Runs
\* without suspension.
Add(u) ==
    LET r == JSONConfigFile_read(defaults, file)
        v == Map(Put(r.ret.m, u, ClientEntry(u)))
    IN /\ ~r.raised
       /\ AccountsWrite(r, v,
              [by |-> "add", val |-> v, uid |-> u,
               prev |-> IF last.by = "add" /\ last.uid # u THEN last.uid ELSE ""])

\* await accounts.delete(u): write of read() without the key u.
Delete(u) ==
    LET r == JSONConfigFile_read(defaults, file)
        v == Map([k \in (DOMAIN r.ret.m) \ {u} |-> r.ret.m[k]])
    IN /\ ~r.raised
       /\ AccountsWrite(r, v, [by |-> "delete", val |-> v, uid |-> u, prev |-> ""])

InitAccounts ==
    /\ defaults = default_data("Accounts")
    /\ file \in AccountFiles
    /\ InitRest

NextAccounts ==
    \/ \E u \in AccountIds : Add(u)
    \/ \E u \in AccountIds : Delete(u)
    \/ Read
    \/ Mkdir
    \/ Tick
    \/ FlushOpen
    \/ FlushWrite
    \/ FlushClose
    \/ FlushClear

SpecAccounts == InitAccounts /\ [][NextAccounts]_vars

(* -------------------------------- Theme -------------------------------- *)

\* The text of the bundled resource src/themes/Default.qpl, and a theme text
\* a user has saved.
ThemeDefault == <<"Default.qpl">>

ThemeTexts == { <<"User.qpl">> }

\* theme_parser.convert_to_qml: a pure function of the raw text.
convert_to_qml(txt) == <<"qml">> \o txt

\* The record kept of a Theme.read() call: the file found by
\* self.path.exists(), the file at the return, and the outcome.
ThemeRec(found, raw) ==
    [file |-> found, after |-> file, raised |-> raw.notfound,
     ret |-> IF raw.notfound THEN <<>> ELSE convert_to_qml(raw.text)]

\* await theme.read() up to its first suspension: with the file present it
\* returns the converted text at once; without it the call is suspended in
\* default_data() (aiofiles).
ThemeRead ==
    /\ tpc = "idle"
    /\ IF file.exists /\ dir
       THEN /\ reads' = Last2(Append(reads, ThemeRec(file, ConfigFile_read(file))))
            /\ UNCHANGED <<defaults, dir, tpc, file, to_write, pc, buf, ncalls, last,
                           slot_id, buf_id, file_id, written, stepped, coalesced>>
       ELSE /\ ncalls < MaxWrites
            /\ tpc' = "default_data"
            /\ UNCHANGED <<defaults, dir, file, to_write, pc, buf, ncalls, last,
                           slot_id, buf_id, file_id, written, stepped, coalesced, reads>>

\* default_data() returns: self.write(default) stages the default text,
\* then the base read() reads the file.
ThemeReadResume ==
    /\ tpc = "default_data"
    /\ ncalls < MaxWrites
    /\ tpc' = "idle"
    /\ to_write' = ConfigFile_write(to_write, defaults)
    /\ ncalls' = ncalls + 1
    /\ slot_id' = ncalls + 1
    /\ last' = [by |-> "read", val |-> EmptyObj, uid |-> "", prev |-> ""]
    /\ coalesced' = FALSE
    /\ stepped' = FALSE
    /\ reads' = Last2(Append(reads, ThemeRec(NoFile, ConfigFile_read(file))))
    /\ UNCHANGED <<defaults, dir, file, pc, buf, buf_id, file_id, written>>

\* await theme.write(text) by a caller: ConfigFile.write.
ThemeWrite(txt) ==
    /\ ncalls < MaxWrites
    /\ to_write' = ConfigFile_write(to_write, txt)
    /\ ncalls' = ncalls + 1
    /\ slot_id' = ncalls + 1
    /\ last' = [by |-> "caller", val |-> EmptyObj, uid |-> "", prev |-> ""]
    /\ coalesced' = FALSE
    /\ stepped' = FALSE
    /\ reads' = <<>>
    /\ UNCHANGED <<defaults, dir, tpc, file, pc, buf, buf_id, file_id, written>>

InitTheme ==
    /\ defaults = ThemeDefault
    /\ file \in {NoFile} \cup {FileOf(t) : t \in ThemeTexts}
    /\ InitRest

NextTheme ==
    \/ ThemeRead
    \/ ThemeReadResume
    \/ \E t \in ThemeTexts : ThemeWrite(t)
    \/ Mkdir
    \/ Tick
    \/ FlushOpen
    \/ FlushWrite
    \/ FlushClose
    \/ FlushClear

SpecTheme == InitTheme /\ [][NextTheme]_vars

(* ------------------ flush failures and the directory ------------------- *)

\* aiofiles.open raises (the directory is missing, permission denied, ...):
\* the exception leaves _write_loop, whose task ends; the statements after
\* the `async with` are not run.
FlushOpenFail ==
    /\ pc = "opening"
    /\ pc' = "dead"
    /\ stepped' = TRUE
    /\ UNCHANGED <<defaults, dir, tpc, file, to_write, buf>>
    /\ UNCHANGED <<ncalls, last, slot_id, buf_id, file_id, written, coalesced, reads>>

\* The buffered text cannot be written out at the close (disk full, I/O
\* error): the file stays as the open left it and the exception ends the
\* task.
FlushCloseFail ==
    /\ pc = "written"
    /\ pc' = "dead"
    /\ stepped' = TRUE
    /\ UNCHANGED <<defaults, dir, tpc, file, to_write, buf>>
    /\ UNCHANGED <<ncalls, last, slot_id, buf_id, file_id, written, coalesced, reads>>

\* The parent directory of the resolved path goes away: it is removed with
\* the file in it, or the base directory changes to one where it does not
\* exist.  Not while the loop holds the file open.
RemoveDir ==
    /\ dir
    /\ pc \notin {"opened", "written"}
    /\ dir' = FALSE
    /\ file' = NoFile
    /\ file_id' = 0
    /\ UNCHANGED <<defaults, tpc, to_write, pc, buf>>
    /\ UNCHANGED <<ncalls, last, slot_id, buf_id, written, stepped, coalesced, reads>>

NextIO ==
    \/ \E v \in Values : Write(v)
    \/ Read
    \/ Mkdir
    \/ Tick
    \/ FlushOpen
    \/ FlushWrite
    \/ FlushClose
    \/ FlushClear
    \/ FlushOpenFail
    \/ FlushCloseFail
    \/ RemoveDir

SpecIO == Init /\ [][NextIO]_vars

(* ------------------------------ claims --------------------------------- *)

\* The write loop is asleep with nothing pending: the state the loop comes
\* to rest in once write calls stop.
Quiescent == pc = "sleep" /\ ~to_write.set

\* C1: durability of the latest write.  Once at least one write call has
\* been made and the loop has come to rest with the pending slot empty, the
\* file holds exactly the text of the last write call.
C1_LatestWriteDurable ==
    (Quiescent /\ ncalls > 0) => file = FileOf(dumps(last.val))

\* C2: write coalescing.  When write(v1) and write(v2) were called by the
\* caller with no step of the write loop between them, v1 is never written
\* to disk, and once the loop has come to rest exactly one disk write was
\* made of the two and the file holds v2.
C2_Coalescing ==
    coalesced =>
        /\ written[ncalls - 1] = 0
        /\ file_id # ncalls - 1
        /\ Quiescent => /\ written[ncalls] = 1
                        /\ file = FileOf(dumps(last.val))

\* C3: effect of write.  A write call can be made in every state; it sets
\* the pending slot to the serialization of its argument whatever the slot
\* held, and leaves the file unchanged; the file changes only in the open
\* and close steps of a flush.
C3_WriteEffect ==
    /\ [](ncalls < MaxWrites => \A v \in Values : ENABLED Write(v))
    /\ [][ /\ (ncalls' = ncalls + 1 /\ last'.by = "caller")
              => /\ to_write' = [set |-> TRUE, text |-> dumps(last'.val)]
                 /\ file' = file
           /\ file' # file => (pc \in {"opening", "written"} /\ pc' # pc)
         ]_vars

\* C3 witness: a caller's write has replaced an older value that was still
\* pending, and the file is as it was at the start.
C3_Witness ==
    /\ coalesced
    /\ to_write = [set |-> TRUE, text |-> dumps(last.val)]
    /\ file_id = 0
    /\ file \in InitialFiles

\* C4: read-your-write.  A read made when the last write call was the
\* caller's write(v) returns v merged with the defaults.
C4_ReadYourWrite ==
    \A i \in DOMAIN reads :
        reads[i].prior.by = "caller"
            => /\ ~reads[i].raised
               /\ reads[i].ret = Map(dict_update_recursive(defaults, reads[i].prior.val.m))

\* The schema d is complete in the member function r: every key of d is
\* in r, at every nesting level.
RECURSIVE Complete(_, _)
Complete(d, r) ==
    \A k \in DOMAIN d :
        /\ k \in DOMAIN r
        /\ IsMap(d[k]) => (IsMap(r[k]) /\ Complete(d[k].m, r[k].m))

\* The read found a file holding a valid JSON object.
FoundObject(rec) ==
    /\ rec.file.exists
    /\ loads(rec.file.text).ok
    /\ IsMap(loads(rec.file.text).val)

\* The read found a file holding invalid JSON text.
FoundInvalid(rec) == rec.file.exists /\ ~loads(rec.file.text).ok

\* C5: schema-complete read.  Whatever the file held (absent, invalid, or
\* any JSON object), the value read() returns has every key of the default
\* schema at every nesting level.
C5_SchemaComplete ==
    \A i \in DOMAIN reads :
        (~reads[i].file.exists \/ FoundInvalid(reads[i]) \/ FoundObject(reads[i]))
            => /\ ~reads[i].raised
               /\ Complete(defaults, reads[i].ret.m)

\* C6: self-healing write.  When the last write call was made by read()
\* (the merged result differed from the decoded content) and the loop has
\* come to rest, the file holds the merged result, and a read from that
\* file returns the same merged result and makes no write.
C6_SelfHealing ==
    (Quiescent /\ last.by = "read")
        => /\ file = FileOf(dumps(last.val))
           /\ LET r == JSONConfigFile_read(defaults, file)
              IN ~r.raised /\ r.ret = last.val /\ ~r.writes

\* C7: read idempotence.  Two read() calls in succession with no write
\* call by the caller between them return equal values.
C7_ReadIdempotent ==
    Len(reads) = 2
        => /\ reads[1].raised = reads[2].raised
           /\ reads[1].ret = reads[2].ret

\* r is the merge of the decoded members x into the default members d, as
\* the contract states it key by key.
RECURSIVE IsMergeOf(_, _, _)
IsMergeOf(d, x, r) ==
    /\ DOMAIN r = DOMAIN d \cup DOMAIN x
    /\ \A k \in DOMAIN r :
        IF k \notin DOMAIN x THEN r[k] = d[k]
        ELSE IF k \in DOMAIN d /\ IsMap(d[k]) /\ IsMap(x[k])
             THEN IsMap(r[k]) /\ IsMergeOf(d[k].m, x[k].m, r[k].m)
             ELSE r[k] = x[k]

ExampleDefault == [a |-> Map([b |-> Leaf(1), c |-> Leaf(2)])]

ExampleContent == [a |-> Map([b |-> Leaf(9)])]

ExampleMerged == [a |-> Map([b |-> Leaf(9), c |-> Leaf(2)])]

\* C8: merge correctness.  For every default mapping and every JSON object
\* on disk, read() returns their merge: keys of the content whose values
\* are mappings on both sides are merged recursively, other keys of the
\* content take the content's value, keys absent from the content keep the
\* default; {a: {b: 1, c: 2}} and {a: {b: 9}} give {a: {b: 9, c: 2}}.
C8_MergeCorrect ==
    \A i \in DOMAIN reads :
        FoundObject(reads[i])
            => /\ ~reads[i].raised
               /\ IsMergeOf(defaults, loads(reads[i].file.text).val.m, reads[i].ret.m)
               /\ (defaults = ExampleDefault
                   /\ reads[i].file = FileOf(dumps(Map(ExampleContent))))
                  => reads[i].ret = Map(ExampleMerged)

\* C8 witness: read() has merged the example content into the example
\* default.
C8_Witness ==
    /\ defaults = ExampleDefault
    /\ Len(reads) > 0
    /\ reads[1].file = FileOf(dumps(Map(ExampleContent)))
    /\ reads[1].ret = Map(ExampleMerged)

\* C9: malformed file recovery.  A read() that finds invalid JSON text
\* returns the default schema without raising and stages the default
\* content in the pending slot, for every document.
C9_MalformedRecovery ==
    \A i \in DOMAIN reads :
        FoundInvalid(reads[i])
            => /\ ~reads[i].raised
               /\ reads[i].ret = Map(defaults)
               /\ reads[i].wrote
               /\ reads[i].slot = [set |-> TRUE, text |-> dumps(Map(defaults))]

\* C10: default completeness.  For a document with a non-empty default
\* schema, a read() that finds no file returns exactly the default schema
\* and does not raise.
C10_DefaultComplete ==
    \A i \in DOMAIN reads :
        (~reads[i].file.exists /\ defaults # <<>>)
            => /\ ~reads[i].raised
               /\ reads[i].ret = Map(defaults)

\* C10 witness: a document with a non-empty default schema has been read
\* while its file was missing.
C10_Witness ==
    /\ defaults # <<>>
    /\ Len(reads) > 0
    /\ ~reads[1].file.exists
    /\ reads[1].ret = Map(defaults)

\* C11: Accounts round-trip.  A read() made when the last write call was
\* add(u) returns a mapping holding u with the fields homeserver, token and
\* device_id; one made when it was delete(u) returns a mapping without u.
C11_AccountsRoundTrip ==
    \A i \in DOMAIN reads :
        LET rec == reads[i]
            u == rec.prior.uid
        IN /\ rec.prior.by = "add"
               => /\ ~rec.raised
                  /\ u \in DOMAIN rec.ret.m
                  /\ IsMap(rec.ret.m[u])
                  /\ {"homeserver", "token", "device_id"} \subseteq DOMAIN rec.ret.m[u].m
           /\ rec.prior.by = "delete"
               => /\ ~rec.raised
                  /\ u \notin DOMAIN rec.ret.m

\* C14: add keeps earlier entries.  When add(u1) was followed by add(u2)
\* and the loop has come to rest, the file holds a mapping with both u1
\* and u2.
C14_AddKeepsEarlier ==
    (Quiescent /\ last.by = "add" /\ last.prev # "")
        => /\ loads(file.text).ok
           /\ {last.uid, last.prev} \subseteq DOMAIN loads(file.text).val.m

\* C12: Theme materialization.  A Theme.read() that found no file at the
\* resolved path returns the converted bundled default text without
\* raising, and at its return the file exists with the default content.
C12_ThemeMaterialized ==
    \A i \in DOMAIN reads :
        ~reads[i].file.exists
            => /\ ~reads[i].raised
               /\ reads[i].ret = convert_to_qml(defaults)
               /\ reads[i].after = FileOf(defaults)

\* C13: the caller's last write wins under interleaved reads.  While the
\* slot holds the caller's last write and that value has not reached the
\* disk, a read() does not replace it with its reconciliation result.
C13_CallerWriteWins ==
    [][ (last.by = "caller" /\ slot_id = ncalls /\ written[ncalls] = 0
         /\ last'.by = "read")
        => to_write' = to_write ]_vars

\* C18: a tick without a pending value is a no-op.  A flush is in progress
\* only while a value is pending; a step of the loop that finds it asleep
\* with the slot empty changes neither the file nor the slot; each staged
\* value is written to disk at most once, so disk writes never outnumber
\* write calls.
C18_TickNoOp ==
    /\ [](pc \in {"opening", "opened", "written", "closed"} => to_write.set)
    /\ [](\A i \in 1..MaxWrites : written[i] <= 1 /\ (i > ncalls => written[i] = 0))
    /\ [][ (pc = "sleep" /\ ~to_write.set /\ ncalls' = ncalls)
           => (file' = file /\ to_write' = to_write /\ pc' = "sleep") ]_vars

\* C18 witness: a staged value has been written once and the loop is at
\* rest, where every tick finds the slot empty.
C18_Witness ==
    /\ Quiescent
    /\ stepped
    /\ ncalls >= 1
    /\ written[ncalls] = 1

\* The content read() decoded from the file it found: {} when the file was
\* absent or held invalid JSON.
Decoded(rec) ==
    IF rec.file.exists /\ loads(rec.file.text).ok
    THEN loads(rec.file.text).val
    ELSE EmptyObj

\* C19: reconciliation stages a write exactly when needed.  A read() that
\* returns leaves the file unchanged; it stages the merged result when that
\* differs from the decoded content, and leaves the slot unchanged when
\* the two are equal.
C19_StagesIffNeeded ==
    [][ (reads' # reads /\ reads' # <<>>)
        => LET rec == reads'[Len(reads')] IN
           ~rec.raised
             => /\ file' = file
                /\ IF rec.ret # Decoded(rec)
                   THEN /\ to_write' = [set |-> TRUE, text |-> dumps(rec.ret)]
                        /\ ncalls' = ncalls + 1
                   ELSE /\ to_write' = to_write
                        /\ ncalls' = ncalls ]_vars

\* C19 witness: a read() that staged its merged result was followed, after
\* the flush, by a read() that found the merged content and staged nothing.
C19_Witness ==
    /\ Len(reads) = 2
    /\ reads[1].wrote
    /\ reads[2].file.exists
    /\ ~reads[2].raised
    /\ ~reads[2].wrote
    /\ reads[2].ret = Decoded(reads[2])

\* C15: the write loop survives a failed flush.  Whatever I/O error a
\* flush attempt meets, the loop does not terminate.
C15_LoopSurvives == pc # "dead"

\* C16: drop on failed flush.  At the end of every flush attempt, whether
\* it succeeded or failed, the pending slot is empty.
C16_SlotEmptyAfterAttempt ==
    [][ (pc \in {"opening", "written", "closed"} /\ pc' \in {"sleep", "dead"})
        => ~to_write'.set ]_vars

\* C17: the parent directory exists at every flush.  Every flush attempt
\* for a pending value is made with the parent directory of the resolved
\* path in place, created by the loop if it was missing.
C17_DirAtEveryFlush ==
    [][ (pc = "opening" /\ pc' # "opening") => dir' ]_vars

====
